---- MODULE Spec2Model ----
(***************************************************************************)
(* The string slicer of src/lib.rs: a cursor (StrSlicer) over an immutable *)
(* UTF-8 buffer, the three built-in patterns (&str, char, FnMut(char) ->   *)
(* bool), and the two trackers (the unit tracker and LineTracker).         *)
(*                                                                         *)
(* A buffer is a sequence of bytes that is valid UTF-8.  A char is written *)
(* as its UTF-8 encoding (a sequence of 1..4 bytes), so len_utf8 is Len.   *)
(* A borrowed slice &string[lo..hi] is the pair of its byte offsets.       *)
(* A panic is recorded in `failure`; the program stops there.              *)
(***************************************************************************)
EXTENDS Integers, Sequences, FiniteSets, TLC

\* ------------------------------------------------------------------ bounds
\* Buffers hold at most MaxChars characters.
MaxChars == 3
\* Literal patterns hold at most MaxPatChars characters.
MaxPatChars == 2
\* skip_num_chars / slice_num_chars are called with 0..MaxNum.
MaxNum == 2
\* The offset is followed up to MaxPast bytes past the end of the buffer.
MaxPast == 1

\* ------------------------------------------------------- program constants
\* trackers::NEWLINE, '\n'
NEWLINE == 10
\* '\r' of slice_line's trim closure
CARRIAGE_RETURN == 13

\* ----------------------------------------------------------- the alphabet
\* 'a' (one byte), U+00E9 (two bytes), '\n', '\r'
ChA  == <<97>>
ChE  == <<195, 169>>
ChLF == <<NEWLINE>>
ChCR == <<CARRIAGE_RETURN>>
Alphabet == {ChA, ChE, ChLF, ChCR}

\* char::is_whitespace, on the alphabet and the other ASCII white space
char_is_whitespace(ch) == ch \in {<<9>>, <<10>>, <<11>>, <<12>>, <<13>>, <<32>>}

\* The strings of at most n chars of the set A, as bytes.
RECURSIVE StringsOf(_, _)
StringsOf(A, n) ==
  IF n = 0 THEN {<<>>}
  ELSE LET S == StringsOf(A, n - 1) IN S \cup {s \o c : s \in S, c \in A}

\* The buffers: valid UTF-8 over the alphabet.  The literal patterns: the
\* same without '\r'.
Buffers  == StringsOf(Alphabet, MaxChars)
Literals == StringsOf(Alphabet \ {ChCR}, MaxPatChars)

\* The predicate patterns, each given by the set of chars it accepts:
\* |c| c.is_whitespace(), |c| !c.is_whitespace(), |c| c == 'a'.
IsWhitespaceFn  == {c \in Alphabet : char_is_whitespace(c)}
NotWhitespaceFn == {c \in Alphabet : ~char_is_whitespace(c)}
Predicates == {IsWhitespaceFn, NotWhitespaceFn, {ChA}}

\* A pattern argument: kind "str" (lit = the literal), "char" (lit = the
\* char's encoding) or "fn" (f = the chars the closure accepts).
Pat(kind, lit, f) == [kind |-> kind, lit |-> lit, f |-> f, n |-> 0]
StrPat(p)  == Pat("str", p, {})
CharPat(c) == Pat("char", c, {})
FnPat(f)   == Pat("fn", <<>>, f)
NumArg(n)  == [kind |-> "num", lit |-> <<>>, f |-> {}, n |-> n]
NoArg      == [kind |-> "none", lit |-> <<>>, f |-> {}, n |-> 0]
Patterns ==
  {StrPat(p) : p \in Literals} \cup {CharPat(c) : c \in Alphabet}
    \cup {FnPat(f) : f \in Predicates}

\* ------------------------------------------------------------ UTF-8, str
\* A continuation byte 10xxxxxx: (b as i8) < -0x40
IsContinuation(b) == b >= 128 /\ b < 192

\* str::is_char_boundary
is_char_boundary(s, i) ==
  IF i = 0 THEN TRUE
  ELSE IF i >= Len(s) THEN i = Len(s)
  ELSE ~IsContinuation(s[i + 1])

\* The width of the char a leading byte starts.
Utf8Width(b) ==
  IF b < 128 THEN 1 ELSE IF b < 224 THEN 2 ELSE IF b < 240 THEN 3 ELSE 4

\* Whether &s[lo..hi] succeeds (it panics otherwise).
StrIndexOk(s, lo, hi) ==
  lo <= hi /\ is_char_boundary(s, lo) /\ is_char_boundary(s, hi)

\* The bytes of &s[lo..hi].
Bytes(s, lo, hi) == SubSeq(s, lo + 1, hi)

\* s.chars().next(); <<>> stands for None (no char is empty).
first_char(s) ==
  IF s = <<>> THEN <<>>
  ELSE SubSeq(s, 1, IF Utf8Width(s[1]) <= Len(s) THEN Utf8Width(s[1]) ELSE Len(s))

\* str::starts_with(&str)
starts_with(s, p) == Len(p) <= Len(s) /\ SubSeq(s, 1, Len(p)) = p

NotFound == -1

\* The set of byte offsets at which p occurs in s.
Occurrences(s, p) ==
  {k \in 0..(Len(s) - Len(p)) : SubSeq(s, k + 1, k + Len(p)) = p}

Min(S) == CHOOSE x \in S : \A y \in S : x <= y
Max(S) == CHOOSE x \in S : \A y \in S : x >= y

\* A bug for C10: the last occurrence is taken (rfind for find).
find_str_last(s, p) ==
  IF Occurrences(s, p) = {} THEN NotFound ELSE Max(Occurrences(s, p))

\* str::find(&str) and str::find(char): the first byte offset of p in s.
find_str(s, p) ==
  IF Occurrences(s, p) = {} THEN NotFound ELSE Min(Occurrences(s, p))

\* The byte offsets of s at which a char starts.
CharStarts(s) == {k \in 0..(Len(s) - 1) : ~IsContinuation(s[k + 1])}

\* The char of s that starts at byte offset k.
CharAt(s, k) == first_char(SubSeq(s, k + 1, Len(s)))

\* str::find(FnMut(char) -> bool): the offset of the first accepted char.
find_fn(s, f) ==
  LET hits == {k \in CharStarts(s) : CharAt(s, k) \in f}
  IN  IF hits = {} THEN NotFound ELSE Min(hits)

\* str::match_indices(NEWLINE): the offsets of the newlines of s, ascending.
RECURSIVE match_indices(_, _)
match_indices(s, from) ==
  IF from >= Len(s) THEN <<>>
  ELSE IF s[from + 1] = NEWLINE THEN <<from>> \o match_indices(s, from + 1)
  ELSE match_indices(s, from + 1)

\* A bug for C15: the line is returned with its newline.
trim_right_matches_nothing(s, lo, hi) == hi

\* str::trim_right_matches(|c| c == '\n' || c == '\r') on &s[lo..hi]:
\* the new end offset.
RECURSIVE trim_right_matches(_, _, _)
trim_right_matches(s, lo, hi) ==
  IF hi > lo /\ s[hi] \in {NEWLINE, CARRIAGE_RETURN}
  THEN trim_right_matches(s, lo, hi - 1)
  ELSE hi

\* ------------------------------------------------------------------ state
VARIABLES
  string,    \* StrSlicer::string, the borrowed buffer (never changes)
  byte_pos,  \* StrSlicer::byte_pos
  tracker,   \* StrSlicer::tracker: the unit tracker or a LineTracker
  failure,   \* "none", or the panic that ended the program
  call,      \* the last public call: its name, argument, result, the state
             \* it started in, and the Tracker::update calls it made
  sliced     \* the results of the slice_line calls made since construction,
             \* for as long as nothing else has been called (a run of none
             \* is noted once); Interrupted afterwards

vars == <<string, byte_pos, tracker, failure, call, sliced>>

\* The tracker `()` and LineTracker { lines, line_byte_pos }.
UnitTracker == [kind |-> "Unit", lines |-> 0, line_byte_pos |-> 0]
LineTracker_new == [kind |-> "LineTracker", lines |-> 0, line_byte_pos |-> 0]

\* Results of the public calls.  A slice &string[lo..hi] is Some(lo, hi).
Unit         == [tag |-> "unit", lo |-> 0, hi |-> 0]
None         == [tag |-> "none", lo |-> 0, hi |-> 0]
Some(lo, hi) == [tag |-> "some", lo |-> lo, hi |-> hi]
Bool(b)      == [tag |-> IF b THEN "true" ELSE "false", lo |-> 0, hi |-> 0]
Usize(n)     == [tag |-> "usize", lo |-> n, hi |-> n]
Panicked     == [tag |-> "panic", lo |-> 0, hi |-> 0]

\* The slicer as a value: what a method reads and what it leaves behind.
\* `updates` lists the (old_byte_pos, new_byte_pos) of the Tracker::update
\* calls made so far in the running public call.
Slicer(pos, t) ==
  [byte_pos |-> pos, tracker |-> t, failure |-> "none", updates |-> <<>>]

\* A method's outcome: the slicer it leaves and the value it returns.
Out(sl, ret) == [sl |-> sl, ret |-> IF sl.failure = "none" THEN ret ELSE Panicked]

\* A panic inside a method.
Panic(sl, why) == [sl EXCEPT !.failure = why]

\* ------------------------------------------------------------ LineTracker
\* A bug for C19: a backward move adds the newlines it passes, as a forward
\* move does, instead of taking them off.
LineTracker_update_always_adds(t, old_byte_pos, new_byte_pos) ==
  LET lo == IF old_byte_pos < new_byte_pos THEN old_byte_pos ELSE new_byte_pos
      hi == IF old_byte_pos < new_byte_pos THEN new_byte_pos ELSE old_byte_pos
  IN  IF ~StrIndexOk(string, lo, hi)
      THEN [tracker |-> t, failure |-> "str_index"]
      ELSE LET found == match_indices(Bytes(string, lo, hi), 0)
           IN  [tracker |->
                  [t EXCEPT !.lines = @ + Len(found),
                            !.line_byte_pos =
                               IF found = <<>> THEN @ ELSE found[Len(found)]],
                failure |-> "none"]

\* A bug for C24: a backward move of exactly half the old offset recounts
\* from the start (`>=` for `>`).
LineTracker_update_recounts_at_half(t, old_byte_pos, new_byte_pos) ==
  LET lo == IF new_byte_pos > old_byte_pos THEN old_byte_pos
            ELSE IF old_byte_pos - new_byte_pos >= old_byte_pos \div 2 THEN 0
            ELSE new_byte_pos
      hi == IF new_byte_pos > old_byte_pos THEN new_byte_pos
            ELSE IF old_byte_pos - new_byte_pos >= old_byte_pos \div 2 THEN new_byte_pos
            ELSE old_byte_pos
  IN  IF new_byte_pos = old_byte_pos THEN [tracker |-> t, failure |-> "none"]
      ELSE IF ~StrIndexOk(string, lo, hi)
      THEN [tracker |-> t, failure |-> "str_index"]
      ELSE LET found == match_indices(Bytes(string, lo, hi), 0)
               lines == IF new_byte_pos > old_byte_pos THEN t.lines + Len(found)
                        ELSE IF lo = 0 THEN Len(found)
                        ELSE t.lines - Len(found)
           IN  [tracker |->
                  [t EXCEPT !.lines = lines,
                            !.line_byte_pos =
                               IF found = <<>> THEN @ ELSE found[Len(found)]],
                failure |-> "none"]

\* LineTracker::update.  It returns the tracker it leaves and the panic, if
\* any, of its &string[..] index or of `self.lines -= newline_count`.
LineTracker_update(t, old_byte_pos, new_byte_pos) ==
  IF new_byte_pos > old_byte_pos THEN
    IF ~StrIndexOk(string, old_byte_pos, new_byte_pos)
    THEN [tracker |-> t, failure |-> "str_index"]
    ELSE LET found == match_indices(Bytes(string, old_byte_pos, new_byte_pos), 0)
         IN  [tracker |->
                [t EXCEPT !.lines = @ + Len(found),
                          !.line_byte_pos =
                             IF found = <<>> THEN @ ELSE found[Len(found)]],
              failure |-> "none"]
  ELSE IF new_byte_pos < old_byte_pos THEN
    LET diff == old_byte_pos - new_byte_pos
        half_len_to_root == old_byte_pos \div 2
    IN  IF diff > half_len_to_root THEN
          IF ~StrIndexOk(string, 0, new_byte_pos)
          THEN [tracker |-> t, failure |-> "str_index"]
          ELSE LET found == match_indices(Bytes(string, 0, new_byte_pos), 0)
               IN  [tracker |->
                      [t EXCEPT !.lines = Len(found),
                                !.line_byte_pos =
                                   IF found = <<>> THEN @ ELSE found[Len(found)]],
                    failure |-> "none"]
        ELSE
          IF ~StrIndexOk(string, new_byte_pos, old_byte_pos)
          THEN [tracker |-> t, failure |-> "str_index"]
          ELSE LET found == match_indices(Bytes(string, new_byte_pos, old_byte_pos), 0)
               IN  IF Len(found) > t.lines
                   THEN [tracker |->
                           [t EXCEPT !.line_byte_pos =
                              IF found = <<>> THEN @ ELSE found[Len(found)]],
                         failure |-> "overflow"]
                   ELSE [tracker |->
                           [t EXCEPT !.lines = @ - Len(found),
                                     !.line_byte_pos =
                                        IF found = <<>> THEN @ ELSE found[Len(found)]],
                         failure |-> "none"]
  ELSE [tracker |-> t, failure |-> "none"]

\* Tracker::update as the slicer calls it: `()` does nothing, a LineTracker
\* runs LineTracker::update.  The call is noted in `updates`.
Tracker_update(sl, old_byte_pos, new_byte_pos) ==
  LET noted == [sl EXCEPT !.updates = Append(@, <<old_byte_pos, new_byte_pos>>)]
  IN  IF sl.tracker.kind = "Unit" THEN noted
      ELSE LET u == LineTracker_update(sl.tracker, old_byte_pos, new_byte_pos)
           IN  [noted EXCEPT !.tracker = u.tracker, !.failure = u.failure]

\* LineTracker::line_byte_pos
LineTracker_line_byte_pos(t) == t.line_byte_pos

\* Tracker::pos
Tracker_pos(t) == IF t.kind = "Unit" THEN Unit ELSE Usize(t.lines)

\* ---------------------------------------------------------------- StrSlicer
end_byte_pos == Len(string)

is_at_end(sl) == sl.byte_pos >= end_byte_pos

\* StrSlicer::jump_to_unchecked: notify the tracker, then store the offset.
jump_to_unchecked(sl, pos) ==
  LET u == Tracker_update(sl, sl.byte_pos, pos)
  IN  IF u.failure # "none" THEN u ELSE [u EXCEPT !.byte_pos = pos]

\* StrSlicer::byte_pos
StrSlicer_byte_pos(sl) == sl.byte_pos

\* A bug for C12: the end of the buffer is out of bounds (`>=` for `>`).
jump_to_rejects_end(sl, pos) ==
  IF pos >= end_byte_pos THEN Panic(sl, "jump_oob")
  ELSE IF is_char_boundary(string, pos) THEN jump_to_unchecked(sl, pos)
  ELSE Panic(sl, "jump_char_boundary")

\* A bug for C13: an offset inside a char is rounded down to the boundary
\* before it instead of being refused.
jump_to_rounds_down(sl, pos) ==
  IF pos > end_byte_pos THEN Panic(sl, "jump_oob")
  ELSE jump_to_unchecked(sl, Max({k \in 0..pos : is_char_boundary(string, k)}))

\* StrSlicer::jump_to
jump_to(sl, pos) ==
  IF pos > end_byte_pos THEN Panic(sl, "jump_oob")
  ELSE IF is_char_boundary(string, pos) THEN jump_to_unchecked(sl, pos)
  ELSE Panic(sl, "jump_char_boundary")

\* StrSlicer::cut_off: None at the end, else Some(&string[byte_pos..end]).
cut_off(sl) ==
  IF is_at_end(sl) THEN Out(sl, None)
  ELSE IF StrIndexOk(string, sl.byte_pos, end_byte_pos)
  THEN Out(sl, Some(sl.byte_pos, end_byte_pos))
  ELSE Out(Panic(sl, "str_index"), Panicked)

\* StrSlicer::as_str: the whole buffer.
as_str == string

\* A bug for C18: the next byte is taken for the next char boundary.
next_char_boundary_next_byte(sl) ==
  IF sl.byte_pos + 1 < end_byte_pos THEN sl.byte_pos + 1 ELSE NotFound

\* StrSlicer::next_char_boundary; NotFound stands for None.
next_char_boundary(sl) ==
  LET later == {n \in (sl.byte_pos + 1)..(end_byte_pos - 1) :
                  is_char_boundary(string, n)}
  IN  IF later = {} THEN NotFound ELSE Min(later)

\* StrSlicer::advance_char
advance_char(sl) ==
  LET next == next_char_boundary(sl)
  IN  jump_to_unchecked(sl, IF next = NotFound THEN end_byte_pos ELSE next)

\* A bug for C20: the offset is stored without telling the tracker.
skip_to_end_unnotified(sl) == [sl EXCEPT !.byte_pos = end_byte_pos]

\* StrSlicer::skip_to_end
skip_to_end(sl) == jump_to_unchecked(sl, end_byte_pos)

\* Some(&self.string[start_pos..end_pos]) at the end of a slice_ method.
SliceFrom(sl, start_pos) ==
  IF sl.failure # "none" THEN Out(sl, Panicked)
  ELSE IF StrIndexOk(string, start_pos, sl.byte_pos)
  THEN Out(sl, Some(start_pos, sl.byte_pos))
  ELSE Out(Panic(sl, "str_index"), Panicked)

\* StrSlicer::skip_num_chars
RECURSIVE skip_num_chars(_, _)
skip_num_chars(sl, num) ==
  IF num = 0 THEN sl
  ELSE LET a == advance_char(sl)
       IN  IF a.failure # "none" \/ is_at_end(a) THEN a
           ELSE skip_num_chars(a, num - 1)

\* StrSlicer::slice_num_chars
slice_num_chars(sl, num) ==
  IF sl.byte_pos >= end_byte_pos THEN Out(sl, None)
  ELSE SliceFrom(skip_num_chars(sl, num), sl.byte_pos)

\* StrSlicer::slice_to_end
slice_to_end(sl) ==
  IF sl.byte_pos >= end_byte_pos THEN Out(sl, None)
  ELSE SliceFrom(skip_to_end(sl), sl.byte_pos)

\* ----------------------------------------------------------------- Pattern
\* A bug for C9: the length pre-check that rejects a literal that ends at
\* the end of the buffer (`if end_pos >= slicer.end_byte_pos() { false }`).
str_is_next_length_check(p, sl) ==
  LET start_pos == sl.byte_pos
      end_pos == sl.byte_pos + Len(p)
  IN  IF end_pos >= end_byte_pos THEN Out(sl, Bool(FALSE))
      ELSE IF StrIndexOk(string, start_pos, end_pos)
      THEN Out(sl, Bool(p = Bytes(string, start_pos, end_pos)))
      ELSE Out(Panic(sl, "str_index"), Panicked)

\* <&str as Pattern>::is_next
str_is_next(p, sl) ==
  LET rest == cut_off(sl)
  IN  IF rest.ret.tag = "panic" THEN rest
      ELSE IF rest.ret.tag = "none" THEN Out(sl, Bool(FALSE))
      ELSE Out(sl, Bool(starts_with(Bytes(string, rest.ret.lo, rest.ret.hi), p)))

\* <char as Pattern>::is_next: the first char of slicer.as_str()
char_is_next(c, sl) ==
  LET char == first_char(as_str)
  IN  IF char = <<>> THEN Out(sl, Bool(FALSE)) ELSE Out(sl, Bool(c = char))

\* <F as Pattern>::is_next: the closure on the first char of slicer.as_str()
fn_is_next(f, sl) ==
  LET char == first_char(as_str)
  IN  IF char = <<>> THEN Out(sl, Bool(FALSE)) ELSE Out(sl, Bool(char \in f))

\* Pattern::is_next
Pattern_is_next(pat, sl) ==
  IF pat.kind = "str" THEN str_is_next(pat.lit, sl)
  ELSE IF pat.kind = "char" THEN char_is_next(pat.lit, sl)
  ELSE fn_is_next(pat.f, sl)

\* cut_off.find(pattern) of the three skip_until bodies
Pattern_find(pat, s) ==
  IF pat.kind = "fn" THEN find_fn(s, pat.f) ELSE find_str(s, pat.lit)

\* A bug for C22: a pattern that is not found leaves the cursor where it is.
Pattern_skip_until_found_only(pat, sl) ==
  LET rest == cut_off(sl)
  IN  IF rest.ret.tag = "panic" THEN rest.sl
      ELSE IF rest.ret.tag = "none" THEN sl
      ELSE LET offset == Pattern_find(pat, Bytes(string, rest.ret.lo, rest.ret.hi))
           IN  IF offset = NotFound THEN sl
               ELSE jump_to_unchecked(sl, sl.byte_pos + offset)

\* Pattern::skip_until, the same body in the three impls
Pattern_skip_until(pat, sl) ==
  LET rest == cut_off(sl)
  IN  IF rest.ret.tag = "panic" THEN rest.sl
      ELSE IF rest.ret.tag = "none" THEN sl
      ELSE LET offset == Pattern_find(pat, Bytes(string, rest.ret.lo, rest.ret.hi))
           IN  IF offset = NotFound THEN skip_to_end(sl)
               ELSE jump_to_unchecked(sl, sl.byte_pos + offset)

\* A bug for C11: a literal is skipped over as one char and not as its
\* whole byte length.
Pattern_skip_over_one_char(pat, sl) == advance_char(sl)

\* A bug for C26: a predicate is applied to the first char of the remaining
\* bytes, and the char is skipped only if it is accepted.
Pattern_skip_over_if_accepted(pat, sl) ==
  IF pat.kind = "fn"
  THEN IF CharAt(string, sl.byte_pos) \in pat.f THEN advance_char(sl) ELSE sl
  ELSE jump_to_unchecked(sl, sl.byte_pos + Len(pat.lit))

\* Pattern::skip_over_unchecked: self.len(), self.len_utf8(), advance_char()
Pattern_skip_over_unchecked(pat, sl) ==
  IF pat.kind = "fn" THEN advance_char(sl)
  ELSE jump_to_unchecked(sl, sl.byte_pos + Len(pat.lit))

\* ------------------------------------------------- StrSlicer with patterns
\* StrSlicer::is_next
is_next(sl, pat) == Pattern_is_next(pat, sl)

\* A bug for C6: the pattern is skipped over before it is tested.
skip_over_then_test(sl, pat) ==
  LET next == Pattern_is_next(pat, sl)
  IN  IF next.ret.tag = "panic" THEN next
      ELSE Out(Pattern_skip_over_unchecked(pat, sl), Bool(next.ret.tag = "true"))

\* StrSlicer::skip_over
skip_over(sl, pat) ==
  LET next == Pattern_is_next(pat, sl)
  IN  IF next.ret.tag = "panic" THEN next
      ELSE IF next.ret.tag = "true"
      THEN Out(Pattern_skip_over_unchecked(pat, sl), Bool(TRUE))
      ELSE Out(sl, Bool(FALSE))

\* StrSlicer::skip_over_unchecked
skip_over_unchecked(sl, pat) == Pattern_skip_over_unchecked(pat, sl)

\* StrSlicer::skip_until
skip_until(sl, pat) == Pattern_skip_until(pat, sl)

\* StrSlicer::slice_until
slice_until(sl, pat) ==
  IF sl.byte_pos >= end_byte_pos THEN Out(sl, None)
  ELSE SliceFrom(skip_until(sl, pat), sl.byte_pos)

\* A bug for C4: the pattern found is not skipped over.
skip_until_after_stops_before(sl, pat) == Pattern_skip_until(pat, sl)

\* A bug for C23: the pattern is skipped over even at the end of the buffer.
skip_until_after_always_skips(sl, pat) ==
  LET found == Pattern_skip_until(pat, sl)
  IN  IF found.failure # "none" THEN found
      ELSE Pattern_skip_over_unchecked(pat, found)

\* StrSlicer::skip_until_after
skip_until_after(sl, pat) ==
  LET found == Pattern_skip_until(pat, sl)
  IN  IF found.failure # "none" THEN found
      ELSE IF ~is_at_end(found) THEN Pattern_skip_over_unchecked(pat, found)
      ELSE found

\* StrSlicer::slice_until_after
slice_until_after(sl, pat) ==
  IF sl.byte_pos >= end_byte_pos THEN Out(sl, None)
  ELSE SliceFrom(skip_until_after(sl, pat), sl.byte_pos)

\* A bug for C25: skip_whitespace stops at white space.
skip_whitespace_until_whitespace(sl) == skip_until(sl, FnPat(IsWhitespaceFn))

\* StrSlicer::skip_whitespace, slice_whitespace
skip_whitespace(sl)  == skip_until(sl, FnPat(NotWhitespaceFn))
slice_whitespace(sl) == slice_until(sl, FnPat(NotWhitespaceFn))

\* StrSlicer::skip_non_whitespace, slice_non_whitespace
skip_non_whitespace(sl)  == skip_until(sl, FnPat(IsWhitespaceFn))
slice_non_whitespace(sl) == slice_until(sl, FnPat(IsWhitespaceFn))

\* StrSlicer::skip_line
skip_line(sl) == skip_until_after(sl, CharPat(ChLF))

\* StrSlicer::slice_line
slice_line(sl) ==
  LET line == slice_until_after(sl, CharPat(ChLF))
  IN  IF line.ret.tag = "some"
      THEN Out(line.sl,
               Some(line.ret.lo, trim_right_matches(string, line.ret.lo, line.ret.hi)))
      ELSE line

\* --------------------------------------------------------------- the calls
\* The slicer a public call starts from.
Self == Slicer(byte_pos, tracker)

\* No call is recorded: the slicer is in its owner's hands.
NoCall == [op |-> "none", arg |-> NoArg, ret |-> Unit,
           pre |-> [byte_pos |-> 0, tracker |-> UnitTracker], updates |-> <<>>]

\* The slicer can be called: nothing has panicked and no call is pending.
Ready == failure = "none" /\ call = NoCall

\* Something other than slice_line has been called.
Interrupted == <<Unit>>

\* The record of the slice_line calls after a call of `op` that returned ret.
Sliced(op, ret) ==
  IF op # "slice_line" \/ sliced = Interrupted THEN Interrupted
  ELSE IF ret = None /\ sliced # <<>> /\ sliced[Len(sliced)] = None THEN sliced
  ELSE Append(sliced, ret)

\* A public call: it leaves the slicer `out.sl` behind and records itself
\* in `call`.
Call(op, arg, out) ==
  /\ \E o \in {out} :
       /\ o.sl.byte_pos <= end_byte_pos + MaxPast
       /\ byte_pos' = o.sl.byte_pos
       /\ tracker' = o.sl.tracker
       /\ failure' = o.sl.failure
       /\ call' = [op |-> op, arg |-> arg, ret |-> o.ret,
                   pre |-> [byte_pos |-> byte_pos, tracker |-> tracker],
                   updates |-> o.sl.updates]
       /\ sliced' = Sliced(op, o.ret)
  /\ UNCHANGED string

\* StrSlicer::new(string) and StrSlicer::with_tracker(string, LineTracker::new())
Init ==
  /\ string \in Buffers
  /\ byte_pos = 0
  /\ tracker \in {UnitTracker, LineTracker_new}
  /\ failure = "none"
  /\ call = NoCall
  /\ sliced = <<>>

JumpTo ==
  /\ Ready
  /\ \E pos \in 0..(Len(string) + 1) :
       Call("jump_to", NumArg(pos), Out(jump_to(Self, pos), Unit))

BytePos ==
  /\ Ready
  /\ Call("byte_pos", NoArg, Out(Self, Usize(StrSlicer_byte_pos(Self))))

IsAtEnd ==
  /\ Ready
  /\ Call("is_at_end", NoArg, Out(Self, Bool(is_at_end(Self))))

CutOff ==
  /\ Ready
  /\ Call("cut_off", NoArg, cut_off(Self))

TrackerPos ==
  /\ Ready
  /\ Call("tracker_pos", NoArg, Out(Self, Tracker_pos(tracker)))

SkipNumChars ==
  /\ Ready
  /\ \E num \in 0..MaxNum :
       Call("skip_num_chars", NumArg(num), Out(skip_num_chars(Self, num), Unit))

SliceNumChars ==
  /\ Ready
  /\ \E num \in 0..MaxNum :
       Call("slice_num_chars", NumArg(num), slice_num_chars(Self, num))

IsNext ==
  /\ Ready
  /\ \E pat \in Patterns : Call("is_next", pat, is_next(Self, pat))

SkipOver ==
  /\ Ready
  /\ \E pat \in Patterns : Call("skip_over", pat, skip_over(Self, pat))

SkipUntil ==
  /\ Ready
  /\ \E pat \in Patterns :
       Call("skip_until", pat, Out(skip_until(Self, pat), Unit))

SliceUntil ==
  /\ Ready
  /\ \E pat \in Patterns : Call("slice_until", pat, slice_until(Self, pat))

SkipUntilAfter ==
  /\ Ready
  /\ \E pat \in Patterns :
       Call("skip_until_after", pat, Out(skip_until_after(Self, pat), Unit))

SliceUntilAfter ==
  /\ Ready
  /\ \E pat \in Patterns :
       Call("slice_until_after", pat, slice_until_after(Self, pat))

SkipWhitespace ==
  /\ Ready
  /\ Call("skip_whitespace", NoArg, Out(skip_whitespace(Self), Unit))

SliceWhitespace ==
  /\ Ready
  /\ Call("slice_whitespace", NoArg, slice_whitespace(Self))

SkipNonWhitespace ==
  /\ Ready
  /\ Call("skip_non_whitespace", NoArg, Out(skip_non_whitespace(Self), Unit))

SliceNonWhitespace ==
  /\ Ready
  /\ Call("slice_non_whitespace", NoArg, slice_non_whitespace(Self))

SkipLine ==
  /\ Ready
  /\ Call("skip_line", NoArg, Out(skip_line(Self), Unit))

SliceLine ==
  /\ Ready
  /\ Call("slice_line", NoArg, slice_line(Self))

SkipToEnd ==
  /\ Ready
  /\ Call("skip_to_end", NoArg, Out(skip_to_end(Self), Unit))

SliceToEnd ==
  /\ Ready
  /\ Call("slice_to_end", NoArg, slice_to_end(Self))

\* The caller takes the result of the call that returned; the record of the
\* call is dropped and the slicer can be called again.
Return ==
  /\ failure = "none"
  /\ call # NoCall
  /\ call' = NoCall
  /\ UNCHANGED <<string, byte_pos, tracker, failure, sliced>>

\* The safe public operations of StrSlicer.
Next ==
  \/ Return
  \/ JumpTo
  \/ BytePos
  \/ IsAtEnd
  \/ CutOff
  \/ TrackerPos
  \/ SkipNumChars
  \/ SliceNumChars
  \/ IsNext
  \/ SkipOver
  \/ SkipUntil
  \/ SliceUntil
  \/ SkipUntilAfter
  \/ SliceUntilAfter
  \/ SkipWhitespace
  \/ SliceWhitespace
  \/ SkipNonWhitespace
  \/ SliceNonWhitespace
  \/ SkipLine
  \/ SliceLine
  \/ SkipToEnd
  \/ SliceToEnd

Spec == Init /\ [][Next]_vars

\* The unsafe public operation jump_to_unchecked, with any offset up to
\* MaxPast bytes past the end of the buffer.
JumpToUnchecked ==
  /\ Ready
  /\ \E pos \in 0..(Len(string) + MaxPast) :
       Call("jump_to_unchecked", NumArg(pos), Out(jump_to_unchecked(Self, pos), Unit))

\* The unsafe public operation skip_over_unchecked.
SkipOverUnchecked ==
  /\ Ready
  /\ \E pat \in Patterns :
       Call("skip_over_unchecked", pat, Out(skip_over_unchecked(Self, pat), Unit))

\* The safe public operations and the unsafe ones.
NextUnchecked ==
  \/ Next
  \/ JumpToUnchecked
  \/ SkipOverUnchecked

SpecUnchecked == Init /\ [][NextUnchecked]_vars

\* ------------------------------------------------- notions of the claims
\* The state the last call started in, as a slicer.
Pre == Slicer(call.pre.byte_pos, call.pre.tracker)

\* The cursor at offset pos is at-end.
AtEnd(pos) == pos >= Len(string)

\* The offset pos is a legal cursor position of the buffer.
Legal(pos) == pos <= Len(string) /\ is_char_boundary(string, pos)

\* The remaining tail at offset pos exists: pos is before the end and on a
\* char boundary.  TailBytes(pos) are its bytes.
HasTail(pos) == ~AtEnd(pos) /\ is_char_boundary(string, pos)
TailBytes(pos) == SubSeq(string, pos + 1, Len(string))

\* The char of the buffer that starts at offset pos; <<>> when there is none.
CharAtCursor(pos) == IF HasTail(pos) THEN first_char(TailBytes(pos)) ELSE <<>>

\* Pattern pat occurs in the buffer starting exactly at offset pos.
OccursAt(pat, pos) ==
  IF pat.kind = "fn" THEN CharAtCursor(pos) \in pat.f
  ELSE IF pat.kind = "char" THEN CharAtCursor(pos) = pat.lit
  ELSE HasTail(pos) /\ starts_with(TailBytes(pos), pat.lit)

\* The byte length of the occurrence of pat at offset pos.
OccurrenceLen(pat, pos) ==
  IF pat.kind = "fn" THEN Len(CharAtCursor(pos)) ELSE Len(pat.lit)

SliceOps ==
  {"slice_until", "slice_until_after", "slice_num_chars", "slice_whitespace",
   "slice_non_whitespace", "slice_line", "slice_to_end"}

\* ------------------------------------------------------------------ claims
\* C1: after any sequence of safe public operations the byte offset is at
\* most the buffer length and lies on a UTF-8 code-point boundary.
C1_PositionInvariant ==
  byte_pos <= Len(string) /\ is_char_boundary(string, byte_pos)

\* C2: no safe operation other than jump_to panics, and jump_to panics only
\* with its out-of-bounds or its non-boundary diagnostic.
C2_OnlyJumpToFails ==
  failure # "none" =>
    call.op = "jump_to" /\ failure \in {"jump_oob", "jump_char_boundary"}

\* C3: a slice_ call that starts at-end returns none, leaves the offset and
\* the tracker alone and notifies nobody; any other slice_ call returns the
\* slice from the offset it started at to the offset it leaves (slice_line
\* trims the end of that span).
C3_SharedSlicePolicy ==
  call.op \in SliceOps =>
    IF AtEnd(call.pre.byte_pos)
    THEN /\ call.ret = None
         /\ byte_pos = call.pre.byte_pos
         /\ tracker = call.pre.tracker
         /\ call.updates = <<>>
    ELSE /\ call.ret.tag = "some"
         /\ call.ret.lo = call.pre.byte_pos
         /\ IF call.op = "slice_line"
            THEN call.ret.hi <= byte_pos
            ELSE call.ret.hi = byte_pos

\* C4 as claimed: every slice_ call that returns a value changes the cursor,
\* so that no loop `while let Some(_) = slicer.slice_...(arg)` runs forever.
\* (The calls are deterministic in the cursor state: a call that returns a
\* value and leaves the state as it was returns that value for ever.)
C4_EverySliceLoopEnds ==
  (call.op \in SliceOps /\ call.ret.tag = "some") =>
    <<byte_pos, tracker>> # <<call.pre.byte_pos, call.pre.tracker>>

\* The slice_ calls that consume something whenever they return a value.
ConsumingSlice ==
  \/ call.op \in {"slice_line", "slice_to_end"}
  \/ call.op = "slice_until_after" /\ (call.arg.kind = "str" => call.arg.lit # <<>>)
  \/ call.op = "slice_num_chars" /\ call.arg.n >= 1

\* C4 as amended: slice_until_after with a non-empty literal, a char or a
\* predicate, slice_line, slice_to_end and slice_num_chars(n >= 1) return none
\* when they start at-end and otherwise, when they return a value, leave the
\* offset strictly further on and within the buffer: such a loop makes at
\* most Len(string) calls that return a value.
C4_ConsumingSliceLoopEnds ==
  ConsumingSlice =>
    /\ AtEnd(call.pre.byte_pos) => call.ret = None
    /\ call.ret.tag = "some" =>
         byte_pos > call.pre.byte_pos /\ byte_pos <= Len(string)

\* A loop of C4 in its course: slice_until_after(P), for a non-empty literal
\* P, was called past the start of the buffer and returned a value, and the
\* cursor is not yet at-end.
C4_Witness ==
  /\ call.op = "slice_until_after"
  /\ call.arg.kind = "str"
  /\ call.arg.lit # <<>>
  /\ call.ret.tag = "some"
  /\ call.pre.byte_pos > 0
  /\ ~AtEnd(byte_pos)

\* C5: skip_over(P) returns true only if P occurs at the offset the call
\* started at, and then the offset has advanced by the length of that
\* occurrence.
C5_SkipOverTrue ==
  (call.op = "skip_over" /\ call.ret = Bool(TRUE)) =>
    /\ OccursAt(call.arg, call.pre.byte_pos)
    /\ byte_pos = call.pre.byte_pos + OccurrenceLen(call.arg, call.pre.byte_pos)

\* C6: when skip_over(P) returns false the offset and the tracker are what
\* they were and Tracker::update was not called.
C6_SkipOverFalse ==
  (call.op = "skip_over" /\ call.ret = Bool(FALSE)) =>
    /\ byte_pos = call.pre.byte_pos
    /\ tracker = call.pre.tracker
    /\ call.updates = <<>>
    /\ failure = "none"

\* skip_over returned false for each kind of pattern after the cursor (and,
\* for a LineTracker, the line count) had moved.
C6_Witness ==
  /\ call.op = "skip_over"
  /\ call.ret = Bool(FALSE)
  /\ call.arg.kind = "str"
  /\ call.arg.lit # <<>>
  /\ byte_pos > 0
  /\ ~AtEnd(byte_pos)
  /\ tracker.kind = "LineTracker"
  /\ tracker.lines > 0

\* C7: is_next(c), for a char c, is true iff the cursor is not at-end and
\* the char that starts at the current offset is c.
C7_CharIsNext ==
  (call.op = "is_next" /\ call.arg.kind = "char") =>
    (call.ret = Bool(TRUE)) = (~AtEnd(byte_pos) /\ CharAtCursor(byte_pos) = call.arg.lit)

\* C8: is_next(f), for a predicate f, is the value of f on the char that
\* starts at the current offset, and false when the cursor is at-end.
C8_FnIsNext ==
  (call.op = "is_next" /\ call.arg.kind = "fn") =>
    /\ ~AtEnd(byte_pos) => call.ret = Bool(CharAtCursor(byte_pos) \in call.arg.f)
    /\ AtEnd(byte_pos) => call.ret = Bool(FALSE)

\* C9: is_next(P), for a literal P, is true iff the cursor is not at-end and
\* the remaining tail starts with P (the tail equal to P included).
C9_StrIsNext ==
  (call.op = "is_next" /\ call.arg.kind = "str") =>
    (call.ret = Bool(TRUE)) =
      (HasTail(byte_pos) /\ starts_with(TailBytes(byte_pos), call.arg.lit))

\* is_next(P) returned true for a literal P of two chars that is the whole
\* remaining tail, away from the start of the buffer.
C9_Witness ==
  /\ call.op = "is_next"
  /\ call.arg.kind = "str"
  /\ call.ret = Bool(TRUE)
  /\ byte_pos > 0
  /\ Len(call.arg.lit) >= 2
  /\ TailBytes(byte_pos) = call.arg.lit

\* C10: when the literal P occurs in the remaining tail, slice_until(P)
\* returns the bytes from the offset it started at to the first occurrence
\* of P at or after it, leaves the cursor at that occurrence, and is_next(P)
\* is then true.
C10_SliceUntilStr ==
  ( /\ call.op = "slice_until"
    /\ call.arg.kind = "str"
    /\ HasTail(call.pre.byte_pos)
    /\ Occurrences(TailBytes(call.pre.byte_pos), call.arg.lit) # {} ) =>
    LET first == call.pre.byte_pos
                   + Min(Occurrences(TailBytes(call.pre.byte_pos), call.arg.lit))
    IN  /\ call.ret = Some(call.pre.byte_pos, first)
        /\ byte_pos = first
        /\ is_next(Self, call.arg).ret = Bool(TRUE)

\* slice_until(P) returned a non-empty slice that ends at the first of two
\* occurrences of the non-empty literal P.
C10_Witness ==
  /\ call.op = "slice_until"
  /\ call.arg.kind = "str"
  /\ call.arg.lit # <<>>
  /\ call.ret.tag = "some"
  /\ call.ret.hi > call.ret.lo
  /\ Cardinality(Occurrences(TailBytes(call.pre.byte_pos), call.arg.lit)) >= 2

\* C11: when the literal P occurs in the remaining tail, the slice that
\* slice_until_after(P) returns is as long as the slice that slice_until(P)
\* returns from the same cursor state plus the byte length of P, it ends
\* with P, and the cursor is left just past the first occurrence of P.
C11_SliceUntilAfterStr ==
  ( /\ call.op = "slice_until_after"
    /\ call.arg.kind = "str"
    /\ HasTail(call.pre.byte_pos)
    /\ Occurrences(TailBytes(call.pre.byte_pos), call.arg.lit) # {} ) =>
    LET P == call.arg.lit
        until == slice_until(Pre, call.arg)
        first == call.pre.byte_pos + Min(Occurrences(TailBytes(call.pre.byte_pos), P))
    IN  /\ failure = "none"
        /\ call.ret.tag = "some"
        /\ until.ret.tag = "some"
        /\ call.ret.hi - call.ret.lo = (until.ret.hi - until.ret.lo) + Len(P)
        /\ call.ret.hi - call.ret.lo >= Len(P)
        /\ Bytes(string, call.ret.hi - Len(P), call.ret.hi) = P
        /\ byte_pos = first + Len(P)

\* slice_until_after(P) was called, under a LineTracker, for a literal
\* P of more than one byte that occurs later in the tail, not at the cursor.
C11_Witness ==
  /\ call.op = "slice_until_after"
  /\ call.arg.kind = "str"
  /\ Len(call.arg.lit) >= 2
  /\ call.ret.tag = "some"
  /\ call.ret.hi - call.ret.lo > Len(call.arg.lit)
  /\ Occurrences(TailBytes(call.pre.byte_pos), call.arg.lit) # {}
  /\ tracker.kind = "LineTracker"

\* C12: for every offset k of the buffer that lies on a char boundary (the
\* buffer length included) and from every cursor state, jump_to(k) succeeds
\* and byte_pos() is then k, whether k is ahead of, behind or at the offset
\* the call started at.
C12_JumpToRoundTrip ==
  (call.op = "jump_to" /\ Legal(call.arg.n)) =>
    /\ failure = "none"
    /\ call.ret = Unit
    /\ StrSlicer_byte_pos(Self) = call.arg.n

\* jump_to(k) went backward over a newline to an offset k > 0 under a
\* LineTracker, by the branch of LineTracker::update that subtracts.
C12_Witness ==
  /\ call.op = "jump_to"
  /\ Legal(call.arg.n)
  /\ call.arg.n > 0
  /\ call.arg.n < call.pre.byte_pos
  /\ call.pre.byte_pos - call.arg.n <= call.pre.byte_pos \div 2
  /\ tracker.kind = "LineTracker"
  /\ tracker.lines < call.pre.tracker.lines

\* C13: jump_to(k) fails with the out-of-bounds diagnostic iff k is greater
\* than the buffer length, and with the non-boundary diagnostic iff k is at
\* most the buffer length and inside a char; it fails in no other way, and a
\* failed jump_to leaves the offset and the tracker as they were (nothing is
\* rounded to a boundary) and does not call Tracker::update.
C13_JumpToDiagnostics ==
  call.op = "jump_to" =>
    LET k == call.arg.n
    IN  /\ (failure = "jump_oob") = (k > Len(string))
        /\ (failure = "jump_char_boundary") =
             (k <= Len(string) /\ ~is_char_boundary(string, k))
        /\ failure \in {"none", "jump_oob", "jump_char_boundary"}
        /\ failure # "none" =>
             /\ byte_pos = call.pre.byte_pos
             /\ tracker = call.pre.tracker
             /\ call.updates = <<>>
             /\ call.ret = Panicked

\* jump_to(k) was refused for a k inside a char, with the cursor past the
\* start of the buffer and a LineTracker that has counted a line.
C13_Witness ==
  /\ call.op = "jump_to"
  /\ failure = "jump_char_boundary"
  /\ byte_pos > 0
  /\ tracker.kind = "LineTracker"
  /\ tracker.lines > 0

\* C14: jump_to_unchecked(k) never panics, whatever k and the tracker, and
\* for k greater than the buffer length it leaves the cursor (offset and
\* tracker) in the state skip_to_end leaves it in from the same state.
C14_JumpToUncheckedPastEnd ==
  call.op = "jump_to_unchecked" =>
    /\ failure = "none"
    /\ call.arg.n > Len(string) =>
         /\ StrSlicer_byte_pos(Self) = StrSlicer_byte_pos(skip_to_end(Pre))
         /\ tracker = skip_to_end(Pre).tracker

\* The segments of s from offset lo on that newlines separate, each without
\* its newline, as slices of s; an empty segment after a last newline is
\* left out.
RECURSIVE Segments(_, _)
Segments(s, lo) ==
  IF lo >= Len(s) THEN <<>>
  ELSE LET newlines == {k \in lo..(Len(s) - 1) : s[k + 1] = NEWLINE}
           hi == IF newlines = {} THEN Len(s) ELSE Min(newlines)
       IN  <<Some(lo, hi)>> \o Segments(s, hi + 1)

IsPrefix(p, s) == Len(p) <= Len(s) /\ SubSeq(s, 1, Len(p)) = p

HasCarriageReturn(s) == \E i \in 1..Len(s) : s[i] = CARRIAGE_RETURN

\* C15: on a buffer without carriage returns, the slice_line calls made from
\* offset 0 on return the segments of the buffer between newlines in order,
\* then none, and none at every later call.
C15_SliceLineSegments ==
  (sliced # Interrupted /\ ~HasCarriageReturn(string)) =>
    IsPrefix(sliced, Segments(string, 0) \o <<None>>)

\* slice_line has returned every segment of a buffer of at least two
\* segments, one of them not empty, and then none.
C15_Witness ==
  /\ sliced # Interrupted
  /\ ~HasCarriageReturn(string)
  /\ Len(sliced) >= 3
  /\ sliced[Len(sliced)] = None
  /\ \E i \in 1..Len(sliced) : sliced[i].hi > sliced[i].lo
  /\ call.op = "slice_line"
  /\ call.ret = None
  /\ tracker.kind = "LineTracker"

\* The end of the span &s[lo..hi] once a single trailing line terminator,
\* "\n" or "\r\n", is removed, as str::lines() removes it.
StripTerminator(s, lo, hi) ==
  IF hi > lo /\ s[hi] = NEWLINE
  THEN IF hi - 1 > lo /\ s[hi - 1] = CARRIAGE_RETURN THEN hi - 2 ELSE hi - 1
  ELSE hi

\* C16: the slice that slice_line returns is the span it consumed with one
\* trailing "\n" or "\r\n" removed if there is one; every other trailing
\* char, a carriage return included, is kept.
C16_SliceLineOneTerminator ==
  (call.op = "slice_line" /\ call.ret.tag = "some") =>
    call.ret = Some(call.pre.byte_pos,
                    StripTerminator(string, call.pre.byte_pos, byte_pos))

\* C17: slice_to_end called at an offset that is not at-end returns the
\* whole remaining tail and leaves the cursor at-end; called at-end (as a
\* second slice_to_end in a row is, and every one after it) it returns none
\* and changes nothing.
C17_SliceToEndOnce ==
  call.op = "slice_to_end" =>
    IF ~AtEnd(call.pre.byte_pos)
    THEN /\ failure = "none"
         /\ call.ret = Some(call.pre.byte_pos, Len(string))
         /\ AtEnd(byte_pos)
    ELSE /\ failure = "none"
         /\ call.ret = None
         /\ byte_pos = call.pre.byte_pos
         /\ tracker = call.pre.tracker
         /\ call.updates = <<>>

\* C17 from the legal offsets only.
C17_SliceToEndOnceLegal ==
  (call.op = "slice_to_end" /\ Legal(call.pre.byte_pos)) => C17_SliceToEndOnce

\* The number of chars of the buffer that start at or after the legal
\* offset pos, and the offset reached from pos after m whole chars.
CharsLeft(pos) == Cardinality({k \in pos..(Len(string) - 1) : ~IsContinuation(string[k + 1])})
RECURSIVE AfterChars(_, _)
AfterChars(pos, m) ==
  IF m = 0 THEN pos ELSE AfterChars(pos + Utf8Width(string[pos + 1]), m - 1)

\* C18: from a legal offset that is not at-end, with r chars left,
\* slice_num_chars(n) returns the first min(n, r) whole chars of the tail
\* (the empty slice for n = 0), leaves the offset just after them, on a char
\* boundary and within the buffer, and does not fail when n > r.
C18_SliceNumChars ==
  ( /\ call.op = "slice_num_chars"
    /\ Legal(call.pre.byte_pos)
    /\ ~AtEnd(call.pre.byte_pos) ) =>
    LET r == CharsLeft(call.pre.byte_pos)
        m == IF call.arg.n <= r THEN call.arg.n ELSE r
        end == AfterChars(call.pre.byte_pos, m)
    IN  /\ failure = "none"
        /\ call.ret = Some(call.pre.byte_pos, end)
        /\ byte_pos = end
        /\ Legal(byte_pos)

\* slice_num_chars(n) was called past the start of the buffer with more
\* chars asked for than the one two-byte char that was left.
C18_Witness ==
  /\ call.op = "slice_num_chars"
  /\ Legal(call.pre.byte_pos)
  /\ call.pre.byte_pos > 0
  /\ CharsLeft(call.pre.byte_pos) = 1
  /\ call.arg.n > 1
  /\ call.ret = Some(call.pre.byte_pos, call.pre.byte_pos + 2)
  /\ tracker.kind = "LineTracker"

\* The number of newlines in the bytes [0, pos) of the buffer.
NewlinesBefore(pos) ==
  Cardinality({k \in 0..(pos - 1) : k < Len(string) /\ string[k + 1] = NEWLINE})

\* C19: under a LineTracker, after any moves of the cursor within the buffer
\* (forward, backward by any distance, to the same offset), tracker_pos() is
\* the number of newlines in the bytes [0, current offset) of the buffer.
C19_LineCount ==
  tracker.kind = "LineTracker" =>
    /\ Legal(byte_pos)
    /\ Tracker_pos(tracker) = Usize(NewlinesBefore(byte_pos))

\* A jump_to went backward over a newline, but not over all of them, by the
\* branch of LineTracker::update that subtracts.
C19_Witness ==
  /\ call.op = "jump_to"
  /\ failure = "none"
  /\ tracker.kind = "LineTracker"
  /\ byte_pos < call.pre.byte_pos
  /\ call.pre.byte_pos - byte_pos <= call.pre.byte_pos \div 2
  /\ tracker.lines > 0
  /\ tracker.lines < call.pre.tracker.lines

\* The Tracker::update calls `updates` of one public call form a chain from
\* offset `from` to offset `to`: the first starts at `from`, each starts
\* where the one before it ended, the last ends at `to`; with no call at
\* all, `to` is `from`.
Chained(from, updates, to) ==
  IF updates = <<>> THEN to = from
  ELSE /\ updates[1][1] = from
       /\ updates[Len(updates)][2] = to
       /\ \A i \in 2..Len(updates) : updates[i][1] = updates[i - 1][2]

\* C20: the offset changes only in jump_to_unchecked, which calls
\* Tracker::update once with (offset before, offset after) and then stores
\* the offset: the notifications of every public call that returns form a
\* chain from the offset the call started at to the offset it leaves, so the
\* last notification ends at the current offset and each starts where the
\* one before it ended (at 0 for the first).  (A call that panics inside
\* Tracker::update has notified and not stored: the program ends there.)
C20_NotifiedMoves ==
  (call # NoCall /\ failure = "none") =>
    Chained(call.pre.byte_pos, call.updates, byte_pos)

\* A call that moved the cursor twice, from past the start of the buffer,
\* under a LineTracker.
C20_Witness ==
  /\ call.op = "skip_num_chars"
  /\ failure = "none"
  /\ Len(call.updates) = 2
  /\ call.pre.byte_pos > 0
  /\ byte_pos > call.updates[1][2]
  /\ tracker.kind = "LineTracker"

\* The offsets, from the start of the buffer, of the newlines in the bytes
\* [lo, hi) of the buffer.
NewlinesIn(lo, hi) == {k \in lo..(hi - 1) : k < Len(string) /\ string[k + 1] = NEWLINE}

\* C21: after a forward move of a LineTracker from offset O to offset N > O,
\* line_byte_pos() is the offset from the start of the buffer of the last
\* newline in [O, N) if there is one, and what it was before otherwise.
C21_LineBytePosForward ==
  ( /\ call # NoCall
    /\ failure = "none"
    /\ tracker.kind = "LineTracker"
    /\ Len(call.updates) = 1
    /\ call.updates[1][2] > call.updates[1][1] ) =>
    LET O == call.updates[1][1]
        N == call.updates[1][2]
    IN  LineTracker_line_byte_pos(tracker) =
          IF NewlinesIn(O, N) # {} THEN Max(NewlinesIn(O, N))
          ELSE LineTracker_line_byte_pos(call.pre.tracker)

\* The offsets at or after pos at which pattern pat occurs in the buffer.
OccursFrom(pat, pos) == {k \in pos..(Len(string) - 1) : OccursAt(pat, k)}

\* C22: for a literal, a char and a predicate alike, skip_until(P) called
\* with a remaining tail moves the offset forward to the first occurrence
\* of P in the tail (not at all when P is next) and to the buffer length
\* when P does not occur; called at-end it changes nothing and does not call
\* Tracker::update.
C22_SkipUntil ==
  call.op = "skip_until" =>
    /\ AtEnd(call.pre.byte_pos) =>
         /\ failure = "none"
         /\ byte_pos = call.pre.byte_pos
         /\ tracker = call.pre.tracker
         /\ call.updates = <<>>
    /\ HasTail(call.pre.byte_pos) =>
         /\ failure = "none"
         /\ byte_pos = IF OccursFrom(call.arg, call.pre.byte_pos) # {}
                        THEN Min(OccursFrom(call.arg, call.pre.byte_pos))
                        ELSE Len(string)
         /\ byte_pos >= call.pre.byte_pos

\* skip_until(f) was called past the start of the buffer for a predicate f
\* whose first accepted char lies further on, after a two-byte char.
C22_Witness ==
  /\ call.op = "skip_until"
  /\ call.arg.kind = "fn"
  /\ call.pre.byte_pos > 0
  /\ HasTail(call.pre.byte_pos)
  /\ byte_pos >= call.pre.byte_pos + 2
  /\ ~AtEnd(byte_pos)
  /\ tracker.kind = "LineTracker"

\* C23: when P does not occur in the remaining tail, skip_until_after(P) and
\* slice_until_after(P) leave the offset at the buffer length, not past it,
\* and slice_until_after(P) returns the whole remaining tail.
C23_UntilAfterAbsent ==
  ( /\ call.op \in {"skip_until_after", "slice_until_after"}
    /\ HasTail(call.pre.byte_pos)
    /\ OccursFrom(call.arg, call.pre.byte_pos) = {} ) =>
    /\ failure = "none"
    /\ byte_pos = Len(string)
    /\ call.op = "slice_until_after" =>
         call.ret = Some(call.pre.byte_pos, Len(string))
    /\ call.updates = <<<<call.pre.byte_pos, Len(string)>>>>

\* slice_until_after(P) was called past the start of the buffer for a
\* literal P of two bytes or more that the tail does not hold.
C23_Witness ==
  /\ call.op = "slice_until_after"
  /\ call.arg.kind = "str"
  /\ Len(call.arg.lit) >= 2
  /\ call.pre.byte_pos > 0
  /\ HasTail(call.pre.byte_pos)
  /\ OccursFrom(call.arg, call.pre.byte_pos) = {}
  /\ tracker.kind = "LineTracker"

\* The two strategies of a backward move of the LineTracker t from O to N:
\* the newlines of [0, N) counted afresh, and the newlines of [N, O) taken
\* off the count.  Each leaves in line_byte_pos the index, within the range
\* it scanned, of the last newline it saw.
RecountFromStart(t, N) ==
  [t EXCEPT !.lines = Cardinality(NewlinesIn(0, N)),
            !.line_byte_pos =
               IF NewlinesIn(0, N) = {} THEN @ ELSE Max(NewlinesIn(0, N))]
SubtractPassed(t, O, N) ==
  [t EXCEPT !.lines = @ - Cardinality(NewlinesIn(N, O)),
            !.line_byte_pos =
               IF NewlinesIn(N, O) = {} THEN @ ELSE Max(NewlinesIn(N, O)) - N]

\* C24: on a backward move of the LineTracker from O to N < O the count is
\* taken afresh over [0, N) exactly when O - N > O \div 2 and the newlines
\* of [N, O) are subtracted otherwise; the two strategies give the same
\* line count, and the subtraction does not go below zero.
C24_BackwardStrategy ==
  ( /\ call # NoCall
    /\ tracker.kind = "LineTracker"
    /\ Len(call.updates) = 1
    /\ call.updates[1][2] < call.updates[1][1] ) =>
    LET O == call.updates[1][1]
        N == call.updates[1][2]
        t == call.pre.tracker
    IN  /\ failure = "none"
        /\ tracker = IF O - N > O \div 2 THEN RecountFromStart(t, N)
                      ELSE SubtractPassed(t, O, N)
        /\ RecountFromStart(t, N).lines = SubtractPassed(t, O, N).lines
        /\ Cardinality(NewlinesIn(N, O)) <= t.lines

\* A backward jump of exactly half the old offset, over a newline, by the
\* subtracting strategy, which leaves a line_byte_pos that the recount
\* would not have left.
C24_Witness ==
  /\ call.op = "jump_to"
  /\ failure = "none"
  /\ tracker.kind = "LineTracker"
  /\ call.pre.byte_pos = 2 * byte_pos
  /\ byte_pos > 0
  /\ NewlinesIn(byte_pos, call.pre.byte_pos) # {}
  /\ tracker = SubtractPassed(call.pre.tracker, call.pre.byte_pos, byte_pos)
  /\ tracker # RecountFromStart(call.pre.tracker, byte_pos)

\* The offsets at or after pos at which a char starts that is white space
\* (ws = TRUE) or is not (ws = FALSE), and the chars that start in [lo, hi).
StopsFrom(pos, ws) ==
  {k \in pos..(Len(string) - 1) :
     is_char_boundary(string, k) /\ char_is_whitespace(CharAtCursor(k)) = ws}
CharsIn(lo, hi) ==
  {CharAtCursor(k) : k \in {j \in lo..(hi - 1) : is_char_boundary(string, j)}}

\* C25: from a legal offset, skip_whitespace and slice_whitespace leave the
\* cursor at the first char at or after it that is not white space, or
\* at-end when there is none, and every char passed is white space;
\* skip_non_whitespace and slice_non_whitespace do the same with white space
\* and its absence exchanged.  The offset stays when the stopping char is
\* next.
C25_WhitespaceSkips ==
  ( /\ call.op \in {"skip_whitespace", "slice_whitespace",
                    "skip_non_whitespace", "slice_non_whitespace"}
    /\ Legal(call.pre.byte_pos) ) =>
    LET ws == call.op \in {"skip_non_whitespace", "slice_non_whitespace"}
        stops == StopsFrom(call.pre.byte_pos, ws)
    IN  /\ failure = "none"
        /\ byte_pos = IF stops = {} THEN Len(string) ELSE Min(stops)
        /\ \A c \in CharsIn(call.pre.byte_pos, byte_pos) : char_is_whitespace(c) = ~ws
        /\ call.pre.byte_pos \in stops => byte_pos = call.pre.byte_pos

\* slice_whitespace, called past the start of the buffer, passed white
\* space and stopped at a char that is not, before the end.
C25_Witness ==
  /\ call.op = "slice_whitespace"
  /\ call.pre.byte_pos > 0
  /\ Legal(call.pre.byte_pos)
  /\ call.ret = Some(call.pre.byte_pos, byte_pos)
  /\ byte_pos > call.pre.byte_pos
  /\ ~AtEnd(byte_pos)
  /\ tracker.kind = "LineTracker"

\* C26: skip_over_unchecked(f), for a predicate f, called at a legal offset
\* that is not at-end, moves the offset on by the byte length of the one
\* char at the offset, whether f accepts that char or not and whatever f
\* is (f is not applied); from the last char it lands on the buffer length.
C26_SkipOverUncheckedFn ==
  ( /\ call.op = "skip_over_unchecked"
    /\ call.arg.kind = "fn"
    /\ Legal(call.pre.byte_pos)
    /\ ~AtEnd(call.pre.byte_pos) ) =>
    /\ failure = "none"
    /\ byte_pos = call.pre.byte_pos + Len(CharAtCursor(call.pre.byte_pos))
    /\ byte_pos <= Len(string)
    /\ CharsLeft(call.pre.byte_pos) = 1 => byte_pos = Len(string)
    /\ \A f \in Predicates :
         LET other == skip_over_unchecked(Pre, FnPat(f))
         IN  other.byte_pos = byte_pos /\ other.tracker = tracker

\* skip_over_unchecked(f) was called at the last char of the buffer, a char
\* of two bytes that f does not accept, past the start of the buffer.
C26_Witness ==
  /\ call.op = "skip_over_unchecked"
  /\ call.arg.kind = "fn"
  /\ call.pre.byte_pos > 0
  /\ Legal(call.pre.byte_pos)
  /\ Len(CharAtCursor(call.pre.byte_pos)) = 2
  /\ CharAtCursor(call.pre.byte_pos) \notin call.arg.f
  /\ byte_pos = Len(string)
  /\ tracker.kind = "LineTracker"

\* C27: no safe operation other than jump_to moves the offset backward:
\* after every other call the offset is at least what it was before it.
C27_ForwardOnly ==
  (call # NoCall /\ call.op # "jump_to") => byte_pos >= call.pre.byte_pos

\* C27 from the legal offsets only.
C27_ForwardOnlyLegal ==
  (call # NoCall /\ Legal(call.pre.byte_pos)) => C27_ForwardOnly

\* C28: under a LineTracker, after any moves of the cursor within the
\* buffer, forward and backward, line_byte_pos() is at most the offset of
\* the cursor.
C28_LineBytePosBehindCursor ==
  tracker.kind = "LineTracker" =>
    LineTracker_line_byte_pos(tracker) <= StrSlicer_byte_pos(Self)

====
